---- MODULE Spec2Model ----
(***************************************************************************)
(* Model of providers/github.go: the GitHub provider of oauth2_proxy.      *)
(*                                                                         *)
(* State: the ProviderData a GitHubProvider embeds, the provider's Org and *)
(* Team, and one resolution (a call of GetEmailAddress, or a direct call   *)
(* of one of the membership methods) with its position, the requests it    *)
(* has sent, the last response it received and what it returned.           *)
(* Strings are TLA+ strings; Go's "+" and fmt verbs are \o.                *)
(***************************************************************************)
EXTENDS Integers, Sequences, FiniteSets, TLC

VARIABLES
    p,       \* the provider: ProviderData fields plus Org and Team
    built,   \* TRUE once NewGitHubProvider has returned a *GitHubProvider
    pre,     \* ProviderData as it was when NewGitHubProvider was last entered
    news,    \* number of NewGitHubProvider calls so far
    sets,    \* number of SetOrgTeam calls on the current provider
    op,      \* the method the current call is in ("none" when idle)
    pc,      \* position of the current call
    tok,     \* s.AccessToken of the current call
    calls,   \* endpoint paths requested by the current call, in order
    resp,    \* the last HTTP response the current call received
    chk,     \* (ok, err) returned by the membership check of the current call
    result   \* (email, err) returned by GetEmailAddress

vars == <<p, built, pre, news, sets, op, pc, tok, calls, resp, chk, result>>

----------------------------------------------------------------------------
(* Bounds of the model.                                                    *)

MaxEntries == 2     \* longest list a list endpoint answers with
MaxSetCalls == 2    \* SetOrgTeam calls per provider
MaxNew == 2         \* NewGitHubProvider calls on one ProviderData

----------------------------------------------------------------------------
(* Strings.                                                                *)

\* Go's nil error.
Nil == "<nil>"

\* strings.Contains
Contains(s, sub) ==
    \E i \in 1..(Len(s) - Len(sub) + 1) : SubSeq(s, i, i + Len(sub) - 1) = sub

\* strings.Count for a non-empty sub that cannot overlap itself
Count(s, sub) ==
    Cardinality({i \in 1..(Len(s) - Len(sub) + 1) :
                    SubSeq(s, i, i + Len(sub) - 1) = sub})

\* The printable ASCII characters in order: 0x20 to 0x5F, and 0x61 to 0x7E
\* (0x60, the grave accent, cannot be written in a string of this module).
PrintableLow ==
    " !\"#$%&'()*+,-./0123456789:;<=>?@ABCDEFGHIJKLMNOPQRSTUVWXYZ[\\]^_"
PrintableHigh == "abcdefghijklmnopqrstuvwxyz{|}~"

HexDigits == "0123456789ABCDEF"

\* The characters of the string s.
CharsOf(s) == {SubSeq(s, i, i) : i \in 1..Len(s)}

\* The byte value of each printable ASCII character.
byteOf ==
    [c \in CharsOf(PrintableLow) \cup CharsOf(PrintableHigh) |->
        IF c \in CharsOf(PrintableLow)
        THEN 31 + CHOOSE i \in 1..Len(PrintableLow) : SubSeq(PrintableLow, i, i) = c
        ELSE 96 + CHOOSE i \in 1..Len(PrintableHigh) : SubSeq(PrintableHigh, i, i) = c]

\* "%" and the two upper-case hex digits of the byte of c.
percentEncode(c) ==
    "%" \o SubSeq(HexDigits, (byteOf[c] \div 16) + 1, (byteOf[c] \div 16) + 1)
        \o SubSeq(HexDigits, (byteOf[c] % 16) + 1, (byteOf[c] % 16) + 1)

\* net/url: the unreserved characters, which no mode escapes.
Unreserved ==
    CharsOf("ABCDEFGHIJKLMNOPQRSTUVWXYZabcdefghijklmnopqrstuvwxyz0123456789-_.~")

\* net/url shouldEscape: the characters each mode lets pass besides the
\* unreserved ones.
QueryPass == {}
PathPass == CharsOf("$&+,/:;=@")
HostPass == CharsOf("!$&'()*+,;=:[]<>\"")

\* net/url escape on one character of printable ASCII: a character the mode
\* lets pass stays, a space becomes "+" in a query component, the rest is
\* percent-encoded.
escapeChar(c, pass, spacePlus) ==
    IF c \in Unreserved \/ c \in pass THEN c
    ELSE IF c = " " /\ spacePlus THEN "+"
    ELSE percentEncode(c)

RECURSIVE escape(_, _, _)
escape(s, pass, spacePlus) ==
    IF s = "" THEN ""
    ELSE escapeChar(Head(s), pass, spacePlus) \o escape(Tail(s), pass, spacePlus)

\* url.QueryEscape
QueryEscape(s) == escape(s, QueryPass, TRUE)

\* (*url.URL).EscapedPath() of a URL without RawPath.
EscapedPath(path) == IF path = "*" THEN "*" ELSE escape(path, PathPass, FALSE)

\* The first segment of a relative path holds a colon.
RECURSIVE colonInFirstSegment(_)
colonInFirstSegment(path) ==
    IF path = "" \/ Head(path) = "/" THEN FALSE
    ELSE IF Head(path) = ":" THEN TRUE
    ELSE colonInFirstSegment(Tail(path))

----------------------------------------------------------------------------
(* ProviderData and NewGitHubProvider.                                     *)

\* The zero url.URL.
EmptyUrl == [Scheme |-> "", Host |-> "", Path |-> ""]

\* (*url.URL).String() for a URL with scheme, host and path only: the host
\* and the path are written escaped, a relative path after a host gets a
\* "/", and a relative path that would read as a scheme gets "./".
UrlString(u) ==
    LET path == EscapedPath(u.Path)
        head == (IF u.Scheme # "" THEN u.Scheme \o ":" ELSE "")
                \o (IF u.Scheme # "" \/ u.Host # ""
                    THEN (IF u.Host # "" \/ u.Path # "" THEN "//" ELSE "")
                         \o escape(u.Host, HostPass, FALSE)
                    ELSE "")
    IN  head
        \o (IF path # "" /\ Head(path) # "/" /\ u.Host # "" THEN "/" ELSE "")
        \o (IF head = "" /\ colonInFirstSegment(path) THEN "./" ELSE "")
        \o path

DefaultLoginUrl ==
    [Scheme |-> "https", Host |-> "github.com", Path |-> "/login/oauth/authorize"]
DefaultRedeemUrl ==
    [Scheme |-> "https", Host |-> "github.com", Path |-> "/login/oauth/access_token"]
DefaultValidateUrl ==
    [Scheme |-> "https", Host |-> "api.github.com", Path |-> "/user/emails"]
DefaultScope == "user:email"
GitHubName == "GitHub"
ReadOrgScope == " read:org"

\* A GitHub Enterprise style URL a configuration may carry instead of the default.
CustomUrl(path) == [Scheme |-> "https", Host |-> "ghe.example.com", Path |-> path]

\* The fields of ProviderData.
DataFields ==
    {"ProviderName", "ClientID", "ClientSecret", "LoginUrl", "RedeemUrl",
     "ProfileUrl", "ValidateUrl", "Scope"}

Data(q) == [f \in DataFields |-> q[f]]

\* Configurations handed to NewGitHubProvider: every URL is a non-nil pointer,
\* either the zero URL or a configured one.
RawConfigs ==
    [ProviderName : {"", "MyGitHub"},
     ClientID     : {"id"},
     ClientSecret : {"secret"},
     LoginUrl     : {EmptyUrl, CustomUrl("/login/oauth/authorize")},
     RedeemUrl    : {EmptyUrl, CustomUrl("/login/oauth/access_token")},
     ProfileUrl   : {EmptyUrl, CustomUrl("/api/v3/user")},
     ValidateUrl  : {EmptyUrl, CustomUrl("/api/v3/user/emails")},
     Scope        : {"", "user:email", "repo"}]

\* The zero ProviderData with only the client credentials set.
ZeroConfig ==
    [ProviderName |-> "", ClientID |-> "id", ClientSecret |-> "secret",
     LoginUrl |-> EmptyUrl, RedeemUrl |-> EmptyUrl, ProfileUrl |-> EmptyUrl,
     ValidateUrl |-> EmptyUrl, Scope |-> ""]

\* The name NewGitHubProvider leaves in p.ProviderName.
providerName(d) == GitHubName

\* Scope defaulting of NewGitHubProvider.
defaultScope_always(d) == DefaultScope

defaultScope(d) == IF d.Scope = "" THEN DefaultScope ELSE d.Scope

\* URL defaulting of NewGitHubProvider.
defaultUrl(u, dflt) == IF UrlString(u) = "" THEN dflt ELSE u

\* The ProviderData after NewGitHubProvider(d).
newGitHubProviderData(d) ==
    [d EXCEPT !.ProviderName = providerName(d),
              !.LoginUrl     = defaultUrl(d.LoginUrl, DefaultLoginUrl),
              !.RedeemUrl    = defaultUrl(d.RedeemUrl, DefaultRedeemUrl),
              !.ValidateUrl  = defaultUrl(d.ValidateUrl, DefaultValidateUrl),
              !.Scope        = defaultScope(d)]

\* The scope SetOrgTeam leaves.
setOrgTeamScope(scope, org, team) ==
    IF org # "" \/ team # "" THEN scope \o ReadOrgScope ELSE scope

OrgArgs == {"", "acme"}
TeamArgs == {"", "infra"}

----------------------------------------------------------------------------
(* HTTP responses.                                                         *)

StatusOK == 200
Statuses == {StatusOK, 404, 500}

\* Errors of the transport and of the decoder.
DoErr == "dial tcp: i/o timeout"
ReadErr == "unexpected EOF"
JsonErr == "json: cannot unmarshal object into Go value"

RECURSIVE joinJson(_)
joinJson(items) ==
    IF items = <<>> THEN ""
    ELSE Head(items) \o (IF Len(items) > 1 THEN "," ELSE "") \o joinJson(Tail(items))

\* The JSON text of one entry of each list endpoint.
orgJson(o) == "{\"login\":\"" \o o.login \o "\"}"
teamJson(t) ==
    "{\"name\":\"" \o t.name \o "\",\"slug\":\"" \o t.slug
    \o "\",\"organization\":{\"login\":\"" \o t.organization.login \o "\"}}"
emailJson(e) ==
    "{\"email\":\"" \o e.email \o "\",\"primary\":"
    \o (IF e.primary THEN "true" ELSE "false") \o "}"

\* Entries the endpoints answer with.
OrgEntries == [login : {"acme", "Acme", "other"}]
TeamEntries ==
    [name : {"infra", "Ops"}, slug : {"infra", "ops"},
     organization : [login : {"acme", "other"}]]
EmailEntries == [email : {"a@x.com", "b@x.com"}, primary : BOOLEAN]

ListsOf(S, n) == UNION {[1..k -> S] : k \in 0..n}

\* A body: its raw text and what encoding/json makes of it for a list
\* target; items are the JSON texts of the entries.
ListBody(list, items) ==
    [raw |-> "[" \o joinJson(items) \o "]", valid |-> TRUE, list |-> list]
ObjectBody == [raw |-> "{\"message\":\"Not Found\"}", valid |-> FALSE, list |-> <<>>]
NoBody == [raw |-> "", valid |-> FALSE, list |-> <<>>]

\* The list bodies of each endpoint with at most n entries.
OrgBodies(n) ==
    {ListBody(l, [i \in 1..Len(l) |-> orgJson(l[i])]) : l \in ListsOf(OrgEntries, n)}
TeamBodies(n) ==
    {ListBody(l, [i \in 1..Len(l) |-> teamJson(l[i])]) : l \in ListsOf(TeamEntries, n)}
EmailBodies(n) ==
    {ListBody(l, [i \in 1..Len(l) |-> emailJson(l[i])]) : l \in ListsOf(EmailEntries, n)}

\* The responses of one endpoint: the transport fails (no response), a
\* response of any status arrives but its body cannot be read, or a status
\* arrives with a body (okBodies with 200, otherBodies with another status).
Responses(okBodies, otherBodies) ==
    {[doErr |-> DoErr, readErr |-> Nil, status |-> 0, body |-> NoBody]}
    \cup {[doErr |-> Nil, readErr |-> ReadErr, status |-> st, body |-> NoBody] :
            st \in Statuses}
    \cup {[doErr |-> Nil, readErr |-> Nil, status |-> StatusOK, body |-> b] :
            b \in okBodies \cup {ObjectBody}}
    \cup {[doErr |-> Nil, readErr |-> Nil, status |-> st, body |-> b] :
            st \in Statuses \ {StatusOK}, b \in otherBodies \cup {ObjectBody}}

\* Non-200 answers carry an object or a list of at most one entry.
OrgResponses == Responses(OrgBodies(MaxEntries), OrgBodies(1))
TeamResponses == Responses(TeamBodies(MaxEntries), TeamBodies(1))
EmailResponses == Responses(EmailBodies(MaxEntries), EmailBodies(1))

NoResponse == [doErr |-> Nil, readErr |-> Nil, status |-> 0, body |-> NoBody]

----------------------------------------------------------------------------
(* Endpoints and the membership methods.                                   *)

OrgsPath == "/user/orgs"
TeamsPath == "/user/teams"
EmailsPath == "/user/emails"

\* url.Values.Encode: keys in sorted order.
listParams(accessToken) == "access_token=" \o QueryEscape(accessToken) \o "&limit=100"
emailParams(accessToken) == "access_token=" \o QueryEscape(accessToken)

orgsEndpoint(accessToken) == "https://api.github.com/user/orgs?" \o listParams(accessToken)
teamsEndpoint(accessToken) == "https://api.github.com/user/teams?" \o listParams(accessToken)
emailsEndpoint(accessToken) == "https://api.github.com/user/emails?" \o emailParams(accessToken)

\* fmt.Errorf("got %d from %q %s", resp.StatusCode, endpoint, body)
statusError(status, endpoint, body) ==
    "got " \o ToString(status) \o " from \"" \o endpoint \o "\" " \o body.raw

\* fmt.Errorf("%s unmarshaling %s", err, body)
unmarshalError(err, body) == err \o " unmarshaling " \o body.raw

\* The loop of hasOrg from entry i on.
orgLoop_firstOnly(q, orgs, i) ==
    IF i > Len(orgs) THEN FALSE ELSE q.Org = orgs[i].login

RECURSIVE orgLoop(_, _, _)
orgLoop(q, orgs, i) ==
    IF i > Len(orgs) THEN FALSE
    ELSE IF q.Org = orgs[i].login THEN TRUE
    ELSE orgLoop(q, orgs, i + 1)

\* Whether a non-200 status ends a membership method with an error.
statusFails_never(status) == FALSE

statusFails(status) == status # StatusOK

\* hasOrg on response r.
hasOrg(q, accessToken, r) ==
    IF r.doErr # Nil THEN [ok |-> FALSE, err |-> r.doErr]
    ELSE IF r.readErr # Nil THEN [ok |-> FALSE, err |-> r.readErr]
    ELSE IF statusFails(r.status)
         THEN [ok |-> FALSE, err |-> statusError(r.status, orgsEndpoint(accessToken), r.body)]
    ELSE IF ~r.body.valid THEN [ok |-> FALSE, err |-> JsonErr]
    ELSE [ok |-> orgLoop(q, r.body.list, 1), err |-> Nil]

\* The test of one entry in the loop of hasOrgAndTeam.
teamMatches_byName(q, team) ==
    q.Org = team.organization.login /\ (q.Team = "" \/ q.Team = team.name)

teamMatches(q, team) ==
    q.Org = team.organization.login /\ (q.Team = "" \/ q.Team = team.slug)

\* The loop of hasOrgAndTeam from entry i on.
RECURSIVE teamLoop(_, _, _)
teamLoop(q, teams, i) ==
    IF i > Len(teams) THEN FALSE
    ELSE IF teamMatches(q, teams[i]) THEN TRUE
    ELSE teamLoop(q, teams, i + 1)

\* hasOrgAndTeam on response r.
hasOrgAndTeam(q, accessToken, r) ==
    IF r.doErr # Nil THEN [ok |-> FALSE, err |-> r.doErr]
    ELSE IF r.readErr # Nil THEN [ok |-> FALSE, err |-> r.readErr]
    ELSE IF statusFails(r.status)
         THEN [ok |-> FALSE, err |-> statusError(r.status, teamsEndpoint(accessToken), r.body)]
    ELSE IF ~r.body.valid THEN [ok |-> FALSE, err |-> unmarshalError(JsonErr, r.body)]
    ELSE [ok |-> teamLoop(q, r.body.list, 1), err |-> Nil]

\* The scan for the primary email from entry i on.
NoEmailErr == "no email address found"

emailLoop_firstEntry(emails, i) ==
    IF i > Len(emails) THEN [email |-> "", err |-> NoEmailErr]
    ELSE [email |-> emails[i].email, err |-> Nil]

RECURSIVE emailLoop(_, _)
emailLoop(emails, i) ==
    IF i > Len(emails) THEN [email |-> "", err |-> NoEmailErr]
    ELSE IF emails[i].primary THEN [email |-> emails[i].email, err |-> Nil]
    ELSE emailLoop(emails, i + 1)

\* GetEmailAddress from the email request on, on response r.
emailStage(accessToken, r) ==
    IF r.doErr # Nil THEN [email |-> "", err |-> r.doErr]
    ELSE IF r.readErr # Nil THEN [email |-> "", err |-> r.readErr]
    ELSE IF r.status # StatusOK
         THEN [email |-> "", err |-> statusError(r.status, emailsEndpoint(accessToken), r.body)]
    ELSE IF ~r.body.valid THEN [email |-> "", err |-> unmarshalError(JsonErr, r.body)]
    ELSE emailLoop(r.body.list, 1)

\* The test after a membership check in GetEmailAddress: TRUE when it returns.
checkFails_errOnly(c) == c.err # Nil

checkFails(c) == c.err # Nil \/ ~c.ok

\* What GetEmailAddress returns when the membership check fails.
gateReturn_denied(c) ==
    [email |-> "", err |-> IF c.err = Nil THEN "unauthorized" ELSE c.err]

gateReturn(c) == [email |-> "", err |-> c.err]

\* The first step of GetEmailAddress on provider q.
firstStep_orgsFirst(q) ==
    IF q.Org # "" THEN "orgs" ELSE "emails"

firstStep(q) ==
    IF q.Org # "" THEN (IF q.Team # "" THEN "teams" ELSE "orgs") ELSE "emails"

----------------------------------------------------------------------------
(* The state machine.                                                      *)

Tokens == {"t0k", "a b?%"}

NoCheck == [ok |-> FALSE, err |-> Nil]
NoResult == [email |-> "", err |-> Nil]

\* &GitHubProvider{ProviderData: d}: Org and Team are zero.
provider(d) ==
    [f \in DataFields \cup {"Org", "Team"} |->
        IF f \in DataFields THEN d[f] ELSE ""]

InitFrom(raw) ==
    /\ p = provider(raw)
    /\ built = FALSE
    /\ pre = raw
    /\ news = 0
    /\ sets = 0
    /\ op = "none"
    /\ pc = "idle"
    /\ tok = ""
    /\ calls = <<>>
    /\ resp = NoResponse
    /\ chk = NoCheck
    /\ result = NoResult

\* Resolutions run on a provider built from the zero configuration or from
\* a fully configured one.
FullConfig ==
    [ProviderName |-> "MyGitHub", ClientID |-> "id", ClientSecret |-> "secret",
     LoginUrl |-> CustomUrl("/login/oauth/authorize"),
     RedeemUrl |-> CustomUrl("/login/oauth/access_token"),
     ProfileUrl |-> CustomUrl("/api/v3/user"),
     ValidateUrl |-> CustomUrl("/api/v3/user/emails"),
     Scope |-> "repo"]

Init == \E raw \in {ZeroConfig, FullConfig} : InitFrom(raw)

InitConfig == \E raw \in RawConfigs : InitFrom(raw)

callVars == <<op, pc, tok, calls, resp, chk, result>>

\* NewGitHubProvider(p.ProviderData): defaults the shared ProviderData in
\* place and returns a fresh provider around it.
NewGitHubProvider ==
    /\ pc = "idle"
    /\ news < MaxNew
    /\ pre' = Data(p)
    /\ p' = provider(newGitHubProviderData(Data(p)))
    /\ built' = TRUE
    /\ news' = news + 1
    /\ sets' = 0
    /\ UNCHANGED callVars

SetOrgTeam(org, team) ==
    /\ built
    /\ pc = "idle"
    /\ sets < MaxSetCalls
    /\ p' = [p EXCEPT !.Org = org,
                      !.Team = team,
                      !.Scope = setOrgTeamScope(p.Scope, org, team)]
    /\ sets' = sets + 1
    /\ UNCHANGED <<built, pre, news, callVars>>

\* A direct call of hasOrg.
HasOrg(accessToken) ==
    /\ built
    /\ pc = "idle"
    /\ \E r \in OrgResponses :
        /\ resp' = r
        /\ chk' = hasOrg(p, accessToken, r)
    /\ op' = "hasOrg"
    /\ tok' = accessToken
    /\ calls' = <<OrgsPath>>
    /\ pc' = "done"
    /\ UNCHANGED <<p, built, pre, news, sets, result>>

\* A direct call of hasOrgAndTeam.
HasOrgAndTeam(accessToken) ==
    /\ built
    /\ pc = "idle"
    /\ \E r \in TeamResponses :
        /\ resp' = r
        /\ chk' = hasOrgAndTeam(p, accessToken, r)
    /\ op' = "hasOrgAndTeam"
    /\ tok' = accessToken
    /\ calls' = <<TeamsPath>>
    /\ pc' = "done"
    /\ UNCHANGED <<p, built, pre, news, sets, result>>

\* GetEmailAddress is entered: the branch on p.Org and p.Team.
GetEmailAddressEnter(accessToken) ==
    /\ built
    /\ pc = "idle"
    /\ op' = "GetEmailAddress"
    /\ tok' = accessToken
    /\ pc' = firstStep(p)
    /\ UNCHANGED <<p, built, pre, news, sets, calls, resp, chk, result>>

\* GetEmailAddress with Org and Team set: the teams request and the test
\* of what hasOrgAndTeam returned.
GetEmailAddressTeams ==
    /\ op = "GetEmailAddress"
    /\ pc = "teams"
    /\ \E r \in TeamResponses :
        /\ resp' = r
        /\ chk' = hasOrgAndTeam(p, tok, r)
    /\ calls' = Append(calls, TeamsPath)
    /\ IF checkFails(chk')
       THEN result' = gateReturn(chk') /\ pc' = "done"
       ELSE result' = result /\ pc' = "emails"
    /\ UNCHANGED <<p, built, pre, news, sets, op, tok>>

\* GetEmailAddress with Org set and Team empty: the organizations request
\* and the test of what hasOrg returned.
GetEmailAddressOrgs ==
    /\ op = "GetEmailAddress"
    /\ pc = "orgs"
    /\ \E r \in OrgResponses :
        /\ resp' = r
        /\ chk' = hasOrg(p, tok, r)
    /\ calls' = Append(calls, OrgsPath)
    /\ IF checkFails(chk')
       THEN result' = gateReturn(chk') /\ pc' = "done"
       ELSE result' = result /\ pc' = "emails"
    /\ UNCHANGED <<p, built, pre, news, sets, op, tok>>

\* The email request of GetEmailAddress and the scan of its answer.
GetEmailAddressEmails ==
    /\ op = "GetEmailAddress"
    /\ pc = "emails"
    /\ \E r \in EmailResponses :
        /\ resp' = r
        /\ result' = emailStage(tok, r)
    /\ calls' = Append(calls, EmailsPath)
    /\ pc' = "done"
    /\ UNCHANGED <<p, built, pre, news, sets, op, tok, chk>>

\* The call has returned; the caller drops what it got.
Return ==
    /\ pc = "done"
    /\ op' = "none"
    /\ pc' = "idle"
    /\ tok' = ""
    /\ calls' = <<>>
    /\ resp' = NoResponse
    /\ chk' = NoCheck
    /\ result' = NoResult
    /\ UNCHANGED <<p, built, pre, news, sets>>

NextConfig ==
    \/ NewGitHubProvider
    \/ \E org \in OrgArgs, team \in TeamArgs : SetOrgTeam(org, team)

Next ==
    \/ NewGitHubProvider
    \/ \E org \in OrgArgs, team \in TeamArgs : SetOrgTeam(org, team)
    \/ \E t \in Tokens : HasOrg(t)
    \/ \E t \in Tokens : HasOrgAndTeam(t)
    \/ \E t \in Tokens : GetEmailAddressEnter(t)
    \/ GetEmailAddressTeams
    \/ GetEmailAddressOrgs
    \/ GetEmailAddressEmails
    \/ Return

Spec == Init /\ [][Next]_vars

SpecConfig == InitConfig /\ [][NextConfig]_vars

TypeOK ==
    /\ built \in BOOLEAN
    /\ news \in 0..MaxNew
    /\ sets \in 0..MaxSetCalls
    /\ op \in {"none", "hasOrg", "hasOrgAndTeam", "GetEmailAddress"}
    /\ pc \in {"idle", "teams", "orgs", "emails", "done"}

----------------------------------------------------------------------------
(* Properties.                                                             *)

InGetEmailAddress == op = "GetEmailAddress"

\* The endpoint the current call requested last, "" before the first request.
lastCall == IF calls = <<>> THEN "" ELSE calls[Len(calls)]

\* The last response is a 200 whose body decodes as a list.
ListAnswer ==
    resp.doErr = Nil /\ resp.readErr = Nil /\ resp.status = StatusOK /\ resp.body.valid

\* The last request got a response, and its status is not 200.
Non200Answer ==
    calls # <<>> /\ resp.doErr = Nil /\ resp.status # StatusOK

\* The membership check of the current GetEmailAddress call has run.
CheckRan ==
    InGetEmailAddress /\ calls # <<>> /\ calls[1] \in {TeamsPath, OrgsPath}

CheckPassed == chk.ok /\ chk.err = Nil

\* The membership endpoint the configuration of q calls for.
gateOf(q) == IF q.Team # "" THEN TeamsPath ELSE OrgsPath

\* C1: with a non-empty Org, GetEmailAddress requests /user/emails only after
\* the applicable membership check (hasOrgAndTeam with a Team, hasOrg without)
\* returned true and no error; after a check that returned false or an error
\* the call is over and /user/emails was never requested.
C1_GateBeforeEmails ==
    (InGetEmailAddress /\ p.Org # "") =>
        /\ (pc = "emails" \/ \E i \in 1..Len(calls) : calls[i] = EmailsPath) =>
              /\ CheckPassed
              /\ calls[1] = gateOf(p)
              /\ \A i \in 1..Len(calls) : calls[i] = EmailsPath => i = 2
        /\ (CheckRan /\ ~CheckPassed) =>
              /\ pc = "done"
              /\ \A i \in 1..Len(calls) : calls[i] # EmailsPath

\* The scenario of the spec: org acme, team infra, the user's only team has
\* slug ops; the call ended after the teams request alone.
C1_Witness ==
    /\ InGetEmailAddress /\ pc = "done"
    /\ p.Org = "acme" /\ p.Team = "infra"
    /\ ListAnswer /\ Len(resp.body.list) = 1
    /\ resp.body.list[1].organization.login = "acme"
    /\ resp.body.list[1].slug = "ops"
    /\ calls = <<TeamsPath>>
    /\ chk = [ok |-> FALSE, err |-> Nil]

\* C2: when the membership check of GetEmailAddress fails, an error of the
\* check is returned as it is with an empty email, a clean false is returned
\* as an empty email with no error; no email is returned in either case.
C2_GateFailureOutcome ==
    (CheckRan /\ ~CheckPassed) =>
        /\ pc = "done"
        /\ result.email = ""
        /\ chk.err # Nil => result.err = chk.err
        /\ (chk.err = Nil /\ ~chk.ok) => result.err = Nil

\* A check that ended with the status error of the organizations endpoint.
C2_Witness ==
    /\ CheckRan /\ pc = "done"
    /\ calls = <<OrgsPath>>
    /\ resp.status = 404
    /\ chk.err # Nil
    /\ result = [email |-> "", err |-> chk.err]

\* C3: on a 200 answer of the teams endpoint that decodes as a list,
\* hasOrgAndTeam returns (true, nil) exactly when some entry has the
\* provider's Org as organization login and the Team is empty or is the
\* entry's slug, and (false, nil) otherwise; an entry whose name is the Team
\* but whose slug is not never matches.
C3_TeamMatchBySlug ==
    (lastCall = TeamsPath /\ ListAnswer) =>
        LET teams == resp.body.list IN
        /\ chk.err = Nil
        /\ chk.ok <=> \E i \in 1..Len(teams) :
                         /\ teams[i].organization.login = p.Org
                         /\ (p.Team = "" \/ p.Team = teams[i].slug)
        /\ (p.Team # "" /\ \A i \in 1..Len(teams) : teams[i].slug # p.Team) => ~chk.ok

\* The team's name is the configured Team, its slug is not: no match.
C3_Witness ==
    /\ op = "hasOrgAndTeam" /\ pc = "done"
    /\ p.Org = "acme" /\ p.Team = "infra"
    /\ ListAnswer /\ Len(resp.body.list) = 1
    /\ resp.body.list[1] =
          [name |-> "infra", slug |-> "ops", organization |-> [login |-> "acme"]]
    /\ chk = [ok |-> FALSE, err |-> Nil]

\* C4: on a 200 answer of the organizations endpoint that decodes as a list,
\* hasOrg returns (true, nil) exactly when the provider's Org equals, case
\* included, the login of some entry, and (false, nil) when none does, the
\* empty list included.
C4_OrgMatchExact ==
    (lastCall = OrgsPath /\ ListAnswer) =>
        LET orgs == resp.body.list IN
        /\ chk.err = Nil
        /\ chk.ok <=> \E i \in 1..Len(orgs) : orgs[i].login = p.Org
        /\ orgs = <<>> => ~chk.ok

\* Org acme against the logins other and Acme: no match, no error.
C4_Witness ==
    /\ op = "hasOrg" /\ pc = "done"
    /\ p.Org = "acme"
    /\ ListAnswer
    /\ resp.body.list = <<[login |-> "other"], [login |-> "Acme"]>>
    /\ chk = [ok |-> FALSE, err |-> Nil]

\* C5: on a 200 answer of the email endpoint that decodes as a list,
\* GetEmailAddress returns with no error the email of the first entry, in the
\* order of the answer, whose primary flag is set, and fails with "no email
\* address found" exactly when no entry has the flag set.
C5_FirstPrimaryEmail ==
    (InGetEmailAddress /\ pc = "done" /\ lastCall = EmailsPath /\ ListAnswer) =>
        LET emails == resp.body.list
            prim == {i \in 1..Len(emails) : emails[i].primary}
        IN  /\ prim # {} =>
                 \E i \in prim :
                    /\ \A j \in prim : i <= j
                    /\ result = [email |-> emails[i].email, err |-> Nil]
            /\ prim = {} => result = [email |-> "", err |-> NoEmailErr]
            /\ result.err = NoEmailErr <=> prim = {}

\* The scenario of the spec: a non-primary entry precedes the primary one.
C5_Witness ==
    /\ InGetEmailAddress /\ pc = "done" /\ lastCall = EmailsPath /\ ListAnswer
    /\ resp.body.list = <<[email |-> "a@x.com", primary |-> FALSE],
                          [email |-> "b@x.com", primary |-> TRUE]>>
    /\ result = [email |-> "b@x.com", err |-> Nil]

\* C6 as stated: a response with a status other than 200, from whichever
\* endpoint GetEmailAddress requested, ends the call with an empty email and
\* an error that holds the status code and the endpoint path; the call never
\* goes on to the email request and never returns the empty result without an
\* error.
C6_Non200CarriesStatus ==
    (InGetEmailAddress /\ Non200Answer) =>
        /\ pc = "done"
        /\ result.email = ""
        /\ result.err # Nil
        /\ Contains(result.err, ToString(resp.status))
        /\ Contains(result.err, lastCall)

\* C6, amended: a response with a status other than 200, from whichever
\* endpoint GetEmailAddress requested, ends the call with an empty email and
\* an error, never going on to the email request and never returning the
\* empty result without an error; the error holds the status code and the
\* endpoint path when the body of the response was read, and is the error of
\* the read, as it is, when reading the body failed.
C6_Non200IsError ==
    (InGetEmailAddress /\ Non200Answer) =>
        /\ pc = "done"
        /\ result.email = ""
        /\ result.err # Nil
        /\ resp.readErr = Nil =>
              /\ Contains(result.err, ToString(resp.status))
              /\ Contains(result.err, lastCall)
        /\ resp.readErr # Nil => result.err = resp.readErr

\* The teams endpoint answered 404 with a list that would have matched.
C6_Witness ==
    /\ InGetEmailAddress /\ pc = "done" /\ Non200Answer
    /\ calls = <<TeamsPath>>
    /\ resp.status = 404 /\ resp.readErr = Nil
    /\ resp.body.valid /\ resp.body.list # <<>>
    /\ teamMatches(p, resp.body.list[1])
    /\ result.err = statusError(404, teamsEndpoint(tok), resp.body)

\* C7: however often SetOrgTeam is called, the Scope holds the token
\* read:org at most once.
C7_ReadOrgAtMostOnce ==
    built => Count(p.Scope, "read:org") <= 1

\* C8: a provider never has a Team without an Org.
C8_TeamImpliesOrg ==
    built => (p.Team # "" => p.Org # "")

\* Every field NewGitHubProvider defaults, and the name, is set in d.
Populated(d) ==
    /\ d.ProviderName # ""
    /\ UrlString(d.LoginUrl) # ""
    /\ UrlString(d.RedeemUrl) # ""
    /\ UrlString(d.ProfileUrl) # ""
    /\ UrlString(d.ValidateUrl) # ""
    /\ d.Scope # ""

\* NewGitHubProvider has just returned: no SetOrgTeam since.
JustBuilt == built /\ news >= 1 /\ sets = 0

\* C9 as stated: NewGitHubProvider leaves every field of a configuration that
\* has every field set as it was.
C9_PopulatedUnchanged ==
    (JustBuilt /\ Populated(pre)) => Data(p) = pre

\* C9, amended: NewGitHubProvider leaves every field of a configuration that
\* has every field set as it was, except the name, which becomes "GitHub";
\* applied again to the ProviderData of a provider it built, it changes
\* nothing.
C9_DefaultingIdempotent ==
    JustBuilt =>
        /\ Populated(pre) => Data(p) = [pre EXCEPT !.ProviderName = GitHubName]
        /\ news >= 2 => Data(p) = pre

\* A configuration with every field set and its own name was handed in.
C9_Witness ==
    /\ JustBuilt /\ news = 1
    /\ Populated(pre) /\ pre.ProviderName = "MyGitHub" /\ pre.Scope = "repo"
    /\ p.ProviderName = GitHubName /\ p.Scope = "repo"
    /\ p.LoginUrl = pre.LoginUrl

\* The requests the configuration of q calls for, in order.
expectedCalls(q) ==
    IF q.Org = "" THEN <<EmailsPath>> ELSE <<gateOf(q), EmailsPath>>

\* C10: the requests of a GetEmailAddress call are a prefix of the sequence
\* the configuration fixes (the email request alone with an empty Org, the
\* teams request then the email request with Org and Team, the organizations
\* request then the email request with Org alone), so no endpoint is
\* requested twice; a call that has returned made its first request, and with
\* an empty Org the email request is its only one.
C10_CallsFixedByConfig ==
    InGetEmailAddress =>
        /\ Len(calls) <= Len(expectedCalls(p))
        /\ calls = SubSeq(expectedCalls(p), 1, Len(calls))
        /\ pc = "done" => calls # <<>>
        /\ (pc = "done" /\ p.Org = "") => calls = <<EmailsPath>>
        /\ pc = "emails" => Len(calls) = Len(expectedCalls(p)) - 1

\* Org and Team set: the teams request, then the email request.
C10_Witness ==
    /\ InGetEmailAddress /\ pc = "done"
    /\ p.Org = "acme" /\ p.Team = "infra"
    /\ calls = <<TeamsPath, EmailsPath>>
    /\ result.email # ""

====
